---- MODULE Spec2Model ----
(***************************************************************************)
(* Model of src/code_execution.py: run_command, install_dependencies,      *)
(* gem_already_installed, run_in_tempdir and code_exec_ruby, with several  *)
(* callers executing code_exec_ruby concurrently against one filesystem    *)
(* and one shared gem store.                                               *)
(*                                                                         *)
(* Conventions.  A Python Optional value is a sequence of length at most   *)
(* one: <<>> is None and <<x>> is the value x.  A text (stdout, stderr) is  *)
(* a sequence of tokens; the tokens " " and "\n" are whitespace.  A path   *)
(* is the sequence of its components.  A command line is a sequence of      *)
(* arguments, each argument being a path (a plain word is a one-component  *)
(* path).                                                                  *)
(***************************************************************************)
EXTENDS Integers, Sequences, FiniteSets, TLC

\* ------------------------------------------------------------------ bounds
MaxPkgs == 2
NumDirs == 2

Execs == {"e1", "e2"}
GemNames == <<"rake", "json", "rack", "thor">>
Pkgs == { GemNames[i] : i \in 1..MaxPkgs }
Codes == {"c"}
DirNames == 1..NumDirs

\* ------------------------------------------------------- program constants
TIMEOUT == 60
TIMEOUT_RETURNCODE == -2

None == <<>>
Some(x) == <<x>>

VARIABLES
  environ,        \* os.environ of the host process
  dirs,           \* filesystem: the existing temporary directories
  scripts,        \* filesystem: dir -> Optional content of dir/script.rb
  gems,           \* filesystem: dir -> gems installed under dir/.gem
  store,          \* filesystem: gems installed in the user's persistent store
  live,           \* the child processes alive: <<exec, index in spawns[exec]>>
  pc,             \* each call's position
  isolated,       \* config.USE_TEMP_DIR as read by the call
  code,           \* argument code
  requested,      \* argument packages as passed by the caller
  packages,       \* local variable packages (rebound by the filter, line 134)
  idx,            \* position of the list comprehension of line 134
  answers,        \* results of gem_already_installed, in call order
  temp_dir,       \* local variable temp_dir (Optional dir name)
  env,            \* local variable env (Optional mapping)
  spawns,         \* history: the child processes the call spawned
  ended,          \* history: how the wait for each of them ended
  kept,           \* the list being built by the comprehension of line 134
  buf,            \* output captured so far from the current child
  install_result, \* local variable install_result (Optional result)
  run_result,     \* what run_command returned for the interpreter (Optional)
  retval,         \* run_in_tempdir: value of the pending return (Optional)
  exc,            \* pending / propagated exception (Optional name)
  wrote,          \* history: the script file was written
  removed,        \* history: outcome of shutil.rmtree ("none","ok","failed")
  result          \* what the caller received (Optional result)

vars == <<environ, dirs, scripts, gems, store, live, pc, isolated, code,
          requested, packages, idx, answers, temp_dir, env, spawns, kept,
          buf, install_result, run_result, retval, exc, wrote, removed,
          result, ended>>

\* ------------------------------------------------------------------- texts
Whitespace == {" ", "\n"}

RECURSIVE LStrip(_)
LStrip(s) == IF s # <<>> /\ Head(s) \in Whitespace THEN LStrip(Tail(s)) ELSE s

RECURSIVE RStrip(_)
RStrip(s) ==
  IF s # <<>> /\ s[Len(s)] \in Whitespace
  THEN RStrip(SubSeq(s, 1, Len(s) - 1))
  ELSE s

\* str.strip()
Strip(s) == RStrip(LStrip(s))

\* what a child may have written to its two pipes
Outputs ==
  { [out |-> <<>>, err |-> <<>>],
    [out |-> <<" ", "x", "\n">>, err |-> <<"boom", "\n">>] }

\* Popen.returncode of a child that completed: its exit status, or -N when
\* it was terminated by signal N
ExitStatuses == {0, 1}
Signals == {2}   \* SIGINT
ReturnCodes == ExitStatuses \cup { 0 - s : s \in Signals }

Result(rc, out, err) == [returncode |-> rc, stdout |-> out, stderr |-> err]

\* ------------------------------------------------------------------- paths
Arg(w) == <<w>>
Join(p, name) == Append(p, name)
TmpRoot == <<"tmp">>
DirPath(d) == Join(TmpRoot, ToString(d))
UserGemDir == <<"home", ".gem">>
HostEnviron ==
  [GEM_HOME |-> None, GEM_PATH |-> None, PATH |-> <<<<"usr", "bin">>>>]

\* ----------------------------------------------------------- run_command
\* lines 14-18: the result of a child that completed
CompletedResult(rc, io) == Result(rc, Strip(io.out), Strip(io.err))

\* lines 19-24: the result when subprocess.TimeoutExpired is caught
TimeoutResult ==
  Result(TIMEOUT_RETURNCODE, <<>>, <<"Error: Execution timed out">>)

\* a run_command that leaves the timed-out child running
AfterTimeoutNoKill(procs, child) == procs

\* line 13: subprocess.run kills the child and waits for it before it
\* raises TimeoutExpired
AfterTimeout(procs, child) == procs \ {child}

\* --------------------------------------------------- install_dependencies
\* a test for None alone, which lets the empty list through
FalsyNoneOnly(pk) == pk = None

\* `not packages` of line 42, for an Optional list
Falsy(pk) == IF pk = None THEN TRUE ELSE pk[1] = <<>>

\* line 43
NoopResult == Result(0, <<>>, <<>>)

\* an install command line that always asks for a user-level install
InstallCommandAlwaysUser(list, envArg) ==
  <<Arg("gem"), Arg("install"), Arg("--user-install")>>
  \o [i \in 1..Len(list) |-> Arg(list[i])]

\* an install command line that names only the first package
InstallCommandFirstOnly(list, envArg) ==
  (IF envArg = None
   THEN <<Arg("gem"), Arg("install"), Arg("--user-install")>>
   ELSE <<Arg("gem"), Arg("install")>>)
  \o <<Arg(list[1])>>

\* lines 45-50
InstallCommand(list, envArg) ==
  (IF envArg = None
   THEN <<Arg("gem"), Arg("install"), Arg("--user-install")>>
   ELSE <<Arg("gem"), Arg("install")>>)
  \o [i \in 1..Len(list) |-> Arg(list[i])]

\* -------------------------------------------------- gem_already_installed
\* line 55
QueryCommand(p) == <<Arg("gem"), Arg("list"), Arg("-i"), Arg(p)>>

\* a comprehension that keeps the installed packages instead
KeepInstalled(installed) == installed

\* line 134: the condition of the comprehension
Keep(installed) == ~installed

\* the answer compared with the raw output of gem list
AlreadyInstalledNoStrip(rc, out) == rc = 0 /\ out = <<"true">>

\* line 60
AlreadyInstalled(rc, out) == rc = 0 /\ Strip(out) = <<"true">>

\* `gem list -i p` against the user's store: prints true and exits 0 when p
\* is installed, prints false and exits 1 when not
GemListOutcomes(p, installed) ==
  { IF p \in installed
    THEN [rc |-> 0, out |-> <<"true", "\n">>]
    ELSE [rc |-> 1, out |-> <<"false", "\n">>] }

\* --------------------------------------------------------- run_in_tempdir
\* a directory name chosen without looking at the existing directories
AnyName(existing) == DirNames

\* line 78: tempfile.mkdtemp creates a directory that did not exist
FreshNames(existing) == DirNames \ existing

\* a workspace environment that leaves the install root where the host has it
IsolatedEnvNoHome(host, d) ==
  [host EXCEPT !.PATH = <<Join(Join(DirPath(d), ".gem"), "bin")>> \o host.PATH]

\* lines 80-84
IsolatedEnv(host, d) ==
  LET gem_home == Join(DirPath(d), ".gem")
  IN  [host EXCEPT !.GEM_HOME = Some(gem_home),
                   !.GEM_PATH = Some(gem_home),
                   !.PATH = <<Join(gem_home, "bin")>> \o host.PATH]

\* an env that is os.environ itself, so that the overrides land in it
HostAliased(host, child) == child

\* lines 80 and 144: env is os.environ.copy(), a new mapping, so the
\* assignments to env that follow leave os.environ as it was
HostAfterCopy(host, child) == host

\* an install failure passed on without the marker
InstallFailureNoPrefix(r) == r

\* lines 89-93 and 138-142
InstallFailure(r) ==
  Result(r.returncode, r.stdout,
         <<"Dependency install failed:", "\n">> \o r.stderr)

\* a test that takes only the negative statuses for failures
InstallOkUnlessNegative(r) == r.returncode >= 0

\* lines 88 and 137: the install step succeeded
InstallOk(r) == ~(r.returncode # 0)

\* a run step started right after the install step in both modes
NextAfterInstallNoWrite(iso) == "run"

\* lines 95 and 144: what follows a successful install step
NextAfterInstall(iso) == IF iso THEN "write" ELSE "run"

\* line 95
ScriptPath(d) == Join(DirPath(d), "script.rb")

\* line 99
FileCommand(d) == <<Arg("ruby"), ScriptPath(d)>>

\* a run step whose failure is wrapped like an install failure
FinalOfRunWrapped(r) ==
  IF r.returncode # 0
  THEN Result(r.returncode, r.stdout, <<"Execution failed:", "\n">> \o r.stderr)
  ELSE r

\* line 99 and line 147: the run step's result is returned as it is
FinalOfRun(r) == r

\* --------------------------------------------------------- code_exec_ruby
\* a shared environment without the install root
SharedEnvNoRoot(host) == host

\* lines 144-145
SharedEnv(host) == [host EXCEPT !.GEM_HOME = Some(UserGemDir)]

\* line 147
InlineCommand(c) == <<Arg("ruby"), Arg("-e"), Arg(c)>>

\* line 136: install_dependencies is called without env; line 87: with env
InstallEnvArg(iso, e) == IF iso THEN e ELSE None

\* ------------------------------------------------------------ the machine
\* the values a caller passes for packages: None or a list; the lists are
\* the first n gem names, n <= MaxPkgs
PackageArgs ==
  {None} \cup { Some([i \in 1..n |-> GemNames[i]]) : n \in 0..MaxPkgs }

NoOutput == [out |-> <<>>, err |-> <<>>]

Init ==
  /\ environ = HostEnviron
  /\ dirs = {}
  /\ scripts = [d \in DirNames |-> None]
  /\ gems = [d \in DirNames |-> {}]
  /\ store = {}
  /\ live = {}
  /\ pc = [e \in Execs |-> "idle"]
  /\ isolated = [e \in Execs |-> FALSE]
  /\ code = [e \in Execs |-> "c"]
  /\ requested = [e \in Execs |-> None]
  /\ packages = [e \in Execs |-> None]
  /\ idx = [e \in Execs |-> 1]
  /\ answers = [e \in Execs |-> <<>>]
  /\ temp_dir = [e \in Execs |-> None]
  /\ env = [e \in Execs |-> None]
  /\ spawns = [e \in Execs |-> <<>>]
  /\ ended = [e \in Execs |-> <<>>]
  /\ kept = [e \in Execs |-> <<>>]
  /\ buf = [e \in Execs |-> NoOutput]
  /\ install_result = [e \in Execs |-> None]
  /\ run_result = [e \in Execs |-> None]
  /\ retval = [e \in Execs |-> None]
  /\ exc = [e \in Execs |-> None]
  /\ wrote = [e \in Execs |-> FALSE]
  /\ removed = [e \in Execs |-> "none"]
  /\ result = [e \in Execs |-> None]

\* the child the call e is waiting for
Child(e) == <<e, Len(spawns[e])>>

\* subprocess.run(cmd, env=envArg, timeout=t): the child is started
Spawn(e, cmd, envArg, t) ==
  /\ spawns' = [spawns EXCEPT ![e] =
                  Append(@, [cmd |-> cmd, env |-> envArg, timeout |-> t])]
  /\ ended' = [ended EXCEPT ![e] = Append(@, "running")]
  /\ live' = live \cup {<<e, Len(spawns[e]) + 1>>}
  /\ buf' = [buf EXCEPT ![e] = NoOutput]

\* an exception that leaves run_in_tempdir without the finally clause
RaiseSkippingFinally(e, name) ==
  /\ exc' = [exc EXCEPT ![e] = Some(name)]
  /\ pc' = [pc EXCEPT ![e] = "raised"]

\* an exception leaves the function: inside the try of run_in_tempdir it is
\* pending until the finally clause has run, elsewhere it reaches the caller
Raise(e, name) ==
  /\ exc' = [exc EXCEPT ![e] = Some(name)]
  /\ pc' = [pc EXCEPT ![e] =
              IF isolated[e] /\ temp_dir[e] # None THEN "finally" ELSE "raised"]

\* lines 105-130: code_exec_ruby is called
Call(e) ==
  /\ pc[e] = "idle"
  /\ \E iso \in BOOLEAN, c \in Codes, pk \in PackageArgs :
       /\ isolated' = [isolated EXCEPT ![e] = iso]
       /\ code' = [code EXCEPT ![e] = c]
       /\ requested' = [requested EXCEPT ![e] = pk]
       /\ packages' = [packages EXCEPT ![e] = pk]
       /\ pc' = [pc EXCEPT ![e] = IF iso THEN "mkdtemp" ELSE "filter"]
  /\ UNCHANGED <<environ, dirs, scripts, gems, store, live, idx, answers,
                 temp_dir, env, spawns, kept, buf, install_result,
                 run_result, retval, exc, wrote, removed, result, ended>>

\* line 78
Mkdtemp(e) ==
  /\ pc[e] = "mkdtemp"
  /\ \E d \in FreshNames(dirs) :
       /\ dirs' = dirs \cup {d}
       /\ temp_dir' = [temp_dir EXCEPT ![e] = Some(d)]
  /\ pc' = [pc EXCEPT ![e] = "buildenv"]
  /\ UNCHANGED <<environ, scripts, gems, store, live, isolated, code,
                 requested, packages, idx, answers, env, spawns, kept, buf,
                 install_result, run_result, retval, exc, wrote, removed,
                 result, ended>>

\* line 78: mkdtemp raises OSError, before the try statement is entered
MkdtempError(e) ==
  /\ pc[e] = "mkdtemp"
  /\ Raise(e, "OSError")
  /\ UNCHANGED <<environ, dirs, scripts, gems, store, live, isolated, code,
                 requested, packages, idx, answers, temp_dir, env, spawns,
                 kept, buf, install_result, run_result, retval, wrote,
                 removed, result, ended>>

\* lines 80-84
BuildEnv(e) ==
  /\ pc[e] = "buildenv"
  /\ env' = [env EXCEPT ![e] = Some(IsolatedEnv(environ, temp_dir[e][1]))]
  /\ environ' = HostAfterCopy(environ, IsolatedEnv(environ, temp_dir[e][1]))
  /\ pc' = [pc EXCEPT ![e] = "install"]
  /\ UNCHANGED <<dirs, scripts, gems, store, live, isolated, code,
                 requested, packages, idx, answers, temp_dir, spawns, kept,
                 buf, install_result, run_result, retval, exc, wrote,
                 removed, result, ended>>

\* a query that waits until no other shared-mode execution is between its
\* query and the end of its install
QuerySpawnSerialized(e) ==
  /\ pc[e] = "filter"
  /\ ~Falsy(packages[e])
  /\ idx[e] <= Len(packages[e][1])
  /\ \A f \in Execs \ {e} :
       isolated[f] \/ pc[f] \notin {"wait_query", "install", "wait_install"}
  /\ Spawn(e, QueryCommand(packages[e][1][idx[e]]), None, None)
  /\ pc' = [pc EXCEPT ![e] = "wait_query"]
  /\ UNCHANGED <<environ, dirs, scripts, gems, store, isolated, code,
                 requested, packages, idx, answers, temp_dir, env, kept,
                 install_result, run_result, retval, exc, wrote, removed,
                 result>>

\* lines 133-134, one iteration: gem_already_installed(pkg) starts its child
\* (lines 54-59, no timeout)
QuerySpawn(e) ==
  /\ pc[e] = "filter"
  /\ ~Falsy(packages[e])
  /\ idx[e] <= Len(packages[e][1])
  /\ Spawn(e, QueryCommand(packages[e][1][idx[e]]), None, None)
  /\ pc' = [pc EXCEPT ![e] = "wait_query"]
  /\ UNCHANGED <<environ, dirs, scripts, gems, store, isolated, code,
                 requested, packages, idx, answers, temp_dir, env, kept,
                 install_result, run_result, retval, exc, wrote, removed,
                 result>>

\* lines 54-60 and 134: the query child exits, gem_already_installed returns
\* and the comprehension keeps the package or drops it
QueryReturn(e) ==
  /\ pc[e] = "wait_query"
  /\ \E o \in GemListOutcomes(packages[e][1][idx[e]], store) :
       LET pkg == packages[e][1][idx[e]]
           installed == AlreadyInstalled(o.rc, o.out)
       IN  /\ answers' = [answers EXCEPT ![e] = Append(@, installed)]
           /\ kept' = [kept EXCEPT ![e] =
                         IF Keep(installed) THEN Append(@, pkg) ELSE @]
  /\ live' = live \ {Child(e)}
  /\ idx' = [idx EXCEPT ![e] = @ + 1]
  /\ pc' = [pc EXCEPT ![e] = "filter"]
  /\ UNCHANGED <<environ, dirs, scripts, gems, store, isolated, code,
                 requested, packages, temp_dir, env, spawns, buf,
                 install_result, run_result, retval, exc, wrote, removed,
                 result>>
  /\ ended' = [ended EXCEPT ![e][Len(ended[e])] = "exited"]

\* lines 133-134: the comprehension is done and packages is rebound (or the
\* if of line 133 was not taken)
FilterDone(e) ==
  /\ pc[e] = "filter"
  /\ \/ /\ Falsy(packages[e])
        /\ UNCHANGED packages
     \/ /\ ~Falsy(packages[e])
        /\ idx[e] > Len(packages[e][1])
        /\ packages' = [packages EXCEPT ![e] = Some(kept[e])]
  /\ pc' = [pc EXCEPT ![e] = "install"]
  /\ UNCHANGED <<environ, dirs, scripts, gems, store, live, isolated, code,
                 requested, idx, answers, temp_dir, env, spawns, kept, buf,
                 install_result, run_result, retval, exc, wrote, removed,
                 result, ended>>

\* lines 87 / 136 with lines 42-43: nothing to install
InstallNoop(e) ==
  /\ pc[e] = "install"
  /\ Falsy(packages[e])
  /\ install_result' = [install_result EXCEPT ![e] = Some(NoopResult)]
  /\ pc' = [pc EXCEPT ![e] = "check"]
  /\ UNCHANGED <<environ, dirs, scripts, gems, store, live, isolated, code,
                 requested, packages, idx, answers, temp_dir, env, spawns,
                 kept, buf, run_result, retval, exc, wrote, removed, result, ended>>

\* lines 87 / 136 with lines 45-51 and 13: the install child is started
InstallSpawn(e) ==
  /\ pc[e] = "install"
  /\ ~Falsy(packages[e])
  /\ LET envArg == InstallEnvArg(isolated[e], env[e])
     IN  Spawn(e, InstallCommand(packages[e][1], envArg), envArg,
               Some(TIMEOUT))
  /\ pc' = [pc EXCEPT ![e] = "wait_install"]
  /\ UNCHANGED <<environ, dirs, scripts, gems, store, isolated, code,
                 requested, packages, idx, answers, temp_dir, env, kept,
                 install_result, run_result, retval, exc, wrote, removed,
                 result>>

\* line 13 / line 54: the program cannot be started and subprocess.run
\* raises OSError, which neither run_command nor the callers catch
SpawnError(e) ==
  /\ \/ pc[e] = "install" /\ ~Falsy(packages[e])
     \/ pc[e] = "run"
     \/ pc[e] = "filter" /\ ~Falsy(packages[e]) /\ idx[e] <= Len(packages[e][1])
  /\ Raise(e, "OSError")
  /\ UNCHANGED <<environ, dirs, scripts, gems, store, live, isolated, code,
                 requested, packages, idx, answers, temp_dir, env, spawns,
                 kept, buf, install_result, run_result, retval, wrote,
                 removed, result, ended>>

\* the child run_command waits for writes to its pipes
ChildOutput(e) ==
  /\ pc[e] \in {"wait_install", "wait_run"}
  /\ buf[e] = NoOutput
  /\ \E io \in Outputs \ {NoOutput} : buf' = [buf EXCEPT ![e] = io]
  /\ UNCHANGED <<environ, dirs, scripts, gems, store, live, pc, isolated,
                 code, requested, packages, idx, answers, temp_dir, env,
                 spawns, kept, install_result, run_result, retval, exc,
                 wrote, removed, result, ended>>

\* where `gem install` run with the environment of sp puts the gems
InstallRoot(sp) ==
  IF sp.env = None \/ sp.env[1].GEM_HOME = None
  THEN UserGemDir
  ELSE sp.env[1].GEM_HOME[1]

\* the gems an install command line names
InstalledBy(sp) == { sp.cmd[i][1] : i \in 3..Len(sp.cmd) } \cap Pkgs

\* the filesystem after the install child sp exited with status rc
GemsAfter(sp, rc) ==
  [d \in DirNames |->
     IF rc = 0 /\ d \in dirs /\ InstallRoot(sp) = Join(DirPath(d), ".gem")
     THEN gems[d] \cup InstalledBy(sp)
     ELSE gems[d]]

StoreAfter(sp, rc) ==
  IF rc = 0 /\ InstallRoot(sp) = UserGemDir
  THEN store \cup InstalledBy(sp)
  ELSE store

\* run_command returns r to the step that called it: line 87 / 136 binds
\* install_result, line 99 / 147 returns it
Deliver(e, r) ==
  IF pc[e] = "wait_install"
  THEN /\ install_result' = [install_result EXCEPT ![e] = Some(r)]
       /\ pc' = [pc EXCEPT ![e] = "check"]
       /\ UNCHANGED <<run_result, retval, result>>
  ELSE /\ run_result' = [run_result EXCEPT ![e] = Some(r)]
       /\ UNCHANGED install_result
       /\ IF isolated[e]
          THEN /\ retval' = [retval EXCEPT ![e] = Some(FinalOfRun(r))]
               /\ pc' = [pc EXCEPT ![e] = "finally"]
               /\ UNCHANGED result
          ELSE /\ result' = [result EXCEPT ![e] = Some(FinalOfRun(r))]
               /\ pc' = [pc EXCEPT ![e] = "returned"]
               /\ UNCHANGED retval

\* lines 13-18: the child completes within the timeout
RunCommandReturn(e) ==
  /\ pc[e] \in {"wait_install", "wait_run"}
  /\ \E rc \in ReturnCodes :
       LET sp == spawns[e][Len(spawns[e])]
       IN  /\ Deliver(e, CompletedResult(rc, buf[e]))
           /\ gems' = IF pc[e] = "wait_install" THEN GemsAfter(sp, rc) ELSE gems
           /\ store' = IF pc[e] = "wait_install" THEN StoreAfter(sp, rc) ELSE store
  /\ live' = live \ {Child(e)}
  /\ UNCHANGED <<environ, dirs, scripts, isolated, code, requested, packages,
                 idx, answers, temp_dir, env, spawns, kept, buf, exc, wrote,
                 removed>>
  /\ ended' = [ended EXCEPT ![e][Len(ended[e])] = "exited"]

\* lines 13 and 19-24: the child is still running when the timeout fires
RunCommandTimeout(e) ==
  /\ pc[e] \in {"wait_install", "wait_run"}
  /\ spawns[e][Len(spawns[e])].timeout # None
  /\ Deliver(e, TimeoutResult)
  /\ live' = AfterTimeout(live, Child(e))
  /\ UNCHANGED <<environ, dirs, scripts, gems, store, isolated, code,
                 requested, packages, idx, answers, temp_dir, env, spawns,
                 kept, buf, exc, wrote, removed>>
  /\ ended' = [ended EXCEPT ![e][Len(ended[e])] = "timeout"]

\* lines 88-93 / 137-142
CheckInstall(e) ==
  /\ pc[e] = "check"
  /\ LET r == install_result[e][1]
     IN  IF ~InstallOk(r)
         THEN IF isolated[e]
              THEN /\ retval' = [retval EXCEPT ![e] = Some(InstallFailure(r))]
                   /\ pc' = [pc EXCEPT ![e] = "finally"]
                   /\ UNCHANGED result
              ELSE /\ result' = [result EXCEPT ![e] = Some(InstallFailure(r))]
                   /\ pc' = [pc EXCEPT ![e] = "returned"]
                   /\ UNCHANGED retval
         ELSE /\ pc' = [pc EXCEPT ![e] = NextAfterInstall(isolated[e])]
              /\ UNCHANGED <<retval, result>>
  /\ UNCHANGED <<environ, dirs, scripts, gems, store, live, isolated, code,
                 requested, packages, idx, answers, temp_dir, env, spawns,
                 kept, buf, install_result, run_result, exc, wrote, removed, ended>>

\* lines 95-97
WriteScript(e) ==
  /\ pc[e] = "write"
  /\ scripts' = [scripts EXCEPT ![temp_dir[e][1]] = Some(code[e])]
  /\ wrote' = [wrote EXCEPT ![e] = TRUE]
  /\ pc' = [pc EXCEPT ![e] = "run"]
  /\ UNCHANGED <<environ, dirs, gems, store, live, isolated, code, requested,
                 packages, idx, answers, temp_dir, env, spawns, kept, buf,
                 install_result, run_result, retval, exc, removed, result, ended>>

\* lines 96-97: open or write raises OSError
WriteError(e) ==
  /\ pc[e] = "write"
  /\ Raise(e, "OSError")
  /\ UNCHANGED <<environ, dirs, scripts, gems, store, live, isolated, code,
                 requested, packages, idx, answers, temp_dir, env, spawns,
                 kept, buf, install_result, run_result, retval, wrote,
                 removed, result, ended>>

\* line 99, or lines 144-147: the interpreter is started
RunSpawn(e) ==
  /\ pc[e] = "run"
  /\ IF isolated[e]
     THEN /\ Spawn(e, FileCommand(temp_dir[e][1]), env[e], Some(TIMEOUT))
          /\ UNCHANGED <<env, environ>>
     ELSE /\ env' = [env EXCEPT ![e] = Some(SharedEnv(environ))]
          /\ environ' = HostAfterCopy(environ, SharedEnv(environ))
          /\ Spawn(e, InlineCommand(code[e]), Some(SharedEnv(environ)),
                   Some(TIMEOUT))
  /\ pc' = [pc EXCEPT ![e] = "wait_run"]
  /\ UNCHANGED <<dirs, scripts, gems, store, isolated, code,
                 requested, packages, idx, answers, temp_dir, kept,
                 install_result, run_result, retval, exc, wrote, removed,
                 result>>

\* lines 101-102 when rmtree succeeded: the pending return or the pending
\* exception of the try block takes effect
AfterFinally(e) ==
  IF exc[e] # None
  THEN /\ pc' = [pc EXCEPT ![e] = "raised"]
       /\ UNCHANGED result
  ELSE /\ pc' = [pc EXCEPT ![e] = "returned"]
       /\ result' = [result EXCEPT ![e] = retval[e]]

\* lines 101-102: shutil.rmtree(temp_dir) removes the directory
Rmtree(e) ==
  /\ pc[e] = "finally"
  /\ LET d == temp_dir[e][1]
     IN  /\ dirs' = dirs \ {d}
         /\ scripts' = [scripts EXCEPT ![d] = None]
         /\ gems' = [gems EXCEPT ![d] = {}]
  /\ removed' = [removed EXCEPT ![e] = "ok"]
  /\ AfterFinally(e)
  /\ UNCHANGED <<environ, store, live, isolated, code, requested, packages,
                 idx, answers, temp_dir, env, spawns, kept, buf,
                 install_result, run_result, retval, exc, wrote, ended>>

\* lines 101-102: shutil.rmtree raises; the exception raised in the finally
\* clause replaces the pending return value or exception
RmtreeError(e) ==
  /\ pc[e] = "finally"
  /\ removed' = [removed EXCEPT ![e] = "failed"]
  /\ exc' = [exc EXCEPT ![e] = Some("OSError in rmtree")]
  /\ pc' = [pc EXCEPT ![e] = "raised"]
  /\ UNCHANGED <<environ, dirs, scripts, gems, store, live, isolated, code,
                 requested, packages, idx, answers, temp_dir, env, spawns,
                 kept, buf, install_result, run_result, retval, wrote,
                 result, ended>>

\* the steps of a call that is under way
Step(e) ==
    \/ Mkdtemp(e)
    \/ MkdtempError(e)
    \/ BuildEnv(e)
    \/ QuerySpawn(e)
    \/ QueryReturn(e)
    \/ FilterDone(e)
    \/ InstallNoop(e)
    \/ InstallSpawn(e)
    \/ SpawnError(e)
    \/ ChildOutput(e)
    \/ RunCommandReturn(e)
    \/ RunCommandTimeout(e)
    \/ CheckInstall(e)
    \/ WriteScript(e)
    \/ WriteError(e)
    \/ RunSpawn(e)
    \/ Rmtree(e)
    \/ RmtreeError(e)

\* callers call code_exec_ruby at any time, concurrently
Next == \E e \in Execs : Call(e) \/ Step(e)

Spec == Init /\ [][Next]_vars

\* no call is under way
Quiet == \A f \in Execs : pc[f] \in {"idle", "returned", "raised"}

\* callers call code_exec_ruby one after the other: a call starts only when
\* no other call is under way
CallInTurn(e) == Quiet /\ Call(e)

NextSeq == \E e \in Execs : CallInTurn(e) \/ Step(e)

SpecSeq == Init /\ [][NextSeq]_vars

\* ------------------------------------------------------------- properties
Over == {"returned", "raised"}

IsInstall(sp) == sp.cmd[1] = <<"gem">> /\ sp.cmd[2] = <<"install">>
IsQuery(sp) == sp.cmd[1] = <<"gem">> /\ sp.cmd[2] = <<"list">>
IsRun(sp) == sp.cmd[1] = <<"ruby">>

InstallSpawns(e) == { i \in 1..Len(spawns[e]) : IsInstall(spawns[e][i]) }
QuerySpawns(e) == { i \in 1..Len(spawns[e]) : IsQuery(spawns[e][i]) }
RunSpawns(e) == { i \in 1..Len(spawns[e]) : IsRun(spawns[e][i]) }

\* what run_command returned for the i-th child of e
ResultOf(e, i) ==
  IF IsInstall(spawns[e][i]) THEN install_result[e] ELSE run_result[e]

InstallFailed(e) ==
  install_result[e] # None /\ install_result[e][1].returncode # 0

InstallSucceeded(e) ==
  install_result[e] # None /\ install_result[e][1].returncode = 0

\* control goes back to the caller of run_in_tempdir in this step, after the
\* workspace had been created
LeavesTempdir(e) ==
  /\ isolated[e]
  /\ temp_dir[e] # None
  /\ pc[e] \notin Over
  /\ pc'[e] \in Over

\* C1 as stated: on every path by which an isolated-mode execution goes back
\* to its caller, the workspace directory it created no longer exists.
C1_WorkspaceGoneOnEveryPath ==
  [][\A e \in Execs : LeavesTempdir(e) => temp_dir[e][1] \notin dirs']_vars

\* C1 amended: on every path by which an isolated-mode execution goes back to
\* its caller, shutil.rmtree has been called on the workspace it created, and
\* the directory no longer exists unless that call of rmtree itself raised.
C1_WorkspaceGoneUnlessRmtreeRaises ==
  [][\A e \in Execs :
       LeavesTempdir(e) =>
         /\ removed'[e] \in {"ok", "failed"}
         /\ removed'[e] = "ok" => temp_dir[e][1] \notin dirs']_vars

\* an execution that left with an exception raised after the install step,
\* with its workspace removed
C1_Witness ==
  \E e \in Execs :
    /\ isolated[e]
    /\ pc[e] = "raised"
    /\ install_result[e] # None
    /\ exc[e] = <<"OSError">>
    /\ removed[e] = "ok"
    /\ temp_dir[e][1] \notin dirs

\* C2: when the install step returned a non-zero status (-2 included), the
\* run step never happens (no interpreter is spawned, no script file is
\* written) and the result the caller gets is the install step's returncode
\* and stdout with "Dependency install failed:\n" put before its stderr.
C2_InstallFailureIsFinal ==
  \A e \in Execs :
    InstallFailed(e) =>
      /\ RunSpawns(e) = {}
      /\ ~wrote[e]
      /\ run_result[e] = None
      /\ pc[e] \notin {"write", "run", "wait_run"}
      /\ pc[e] = "returned" =>
           result[e] =
             <<[returncode |-> install_result[e][1].returncode,
                stdout |-> install_result[e][1].stdout,
                stderr |-> <<"Dependency install failed:", "\n">>
                             \o install_result[e][1].stderr]>>

\* an isolated and a shared execution that both returned an install failure,
\* one of them the timeout of the install step
C2_Witness ==
  \E e, f \in Execs :
    /\ isolated[e] /\ ~isolated[f]
    /\ pc[e] = "returned" /\ pc[f] = "returned"
    /\ InstallFailed(e) /\ InstallFailed(f)
    /\ install_result[e][1].returncode = -2
    /\ install_result[f][1].stderr # <<>>

\* C3: a run_command call whose timeout fired returned exactly
\* {-2, "", "Error: Execution timed out"}, whatever the child had written,
\* and its child is not alive once the call has returned.
C3_TimeoutResultAndKill ==
  \A e \in Execs :
    \A i \in 1..Len(ended[e]) :
      ended[e][i] = "timeout" =>
        /\ <<e, i>> \notin live
        /\ ResultOf(e, i) =
             <<[returncode |-> -2, stdout |-> <<>>,
                stderr |-> <<"Error: Execution timed out">>]>>

\* an interpreter that had written output when the timeout fired
C3_Witness ==
  \E e \in Execs :
    /\ spawns[e] # <<>>
    /\ IsRun(spawns[e][Len(spawns[e])])
    /\ ended[e][Len(ended[e])] = "timeout"
    /\ buf[e].out # <<>>
    /\ pc[e] = "returned"

\* C4: install_dependencies called with packages None or [] spawns no process
\* and returns exactly {0, "", ""}.
C4_NoPackagesNoProcess ==
  \A e \in Execs :
    (install_result[e] # None /\ (packages[e] = None \/ packages[e] = <<<<>>>>)) =>
      /\ InstallSpawns(e) = {}
      /\ install_result[e] = <<[returncode |-> 0, stdout |-> <<>>, stderr |-> <<>>]>>

\* an isolated execution called with None and a shared one called with []
\* that are both past the install step
C4_Witness ==
  \E e, f \in Execs :
    /\ isolated[e] /\ requested[e] = None /\ install_result[e] # None
    /\ ~isolated[f] /\ requested[f] = <<<<>>>> /\ install_result[f] # None

\* C5: when the install step returned status 0, the result the caller gets is
\* the result run_command returned for the interpreter, unchanged.
C5_RunResultPassedThrough ==
  \A e \in Execs :
    (pc[e] = "returned" /\ InstallSucceeded(e)) =>
      /\ run_result[e] # None
      /\ result[e] = run_result[e]

\* a returned execution whose interpreter exited non-zero with text on stderr
C5_Witness ==
  \E e \in Execs :
    /\ pc[e] = "returned"
    /\ InstallSucceeded(e)
    /\ run_result[e] # None
    /\ run_result[e][1].returncode = 1
    /\ run_result[e][1].stderr = <<"boom">>

NonEmptyRequest(e) == requested[e] # None /\ requested[e] # <<<<>>>>

\* the arguments of an install command line that name packages
IsPackageArg(a) == a # <<"--user-install">>
PackageArguments(cmd) == SelectSeq(SubSeq(cmd, 3, Len(cmd)), IsPackageArg)

\* a list of package names as command-line arguments
AsArguments(list) == [i \in 1..Len(list) |-> <<list[i]>>]

\* C6: an isolated-mode execution with a non-empty package list makes no
\* already-installed query and spawns one install process, whose package
\* arguments are the requested list, whole and in order.
C6_IsolatedInstallsAllRequested ==
  \A e \in Execs :
    (isolated[e] /\ NonEmptyRequest(e)) =>
      /\ answers[e] = <<>>
      /\ QuerySpawns(e) = {}
      /\ Cardinality(InstallSpawns(e)) <= 1
      /\ install_result[e] # None => Cardinality(InstallSpawns(e)) = 1
      /\ \A i \in InstallSpawns(e) :
           PackageArguments(spawns[e][i].cmd) = AsArguments(requested[e][1])

\* an isolated execution that installed two packages while the first of them
\* was in the shared store
C6_Witness ==
  \E e \in Execs :
    /\ isolated[e]
    /\ requested[e] = <<<<"rake", "json">>>>
    /\ "rake" \in store
    /\ InstallSucceeded(e)
    /\ InstallSpawns(e) # {}

\* the packages of list for which the query answered false, in order
RECURSIVE AnsweredNotInstalled(_, _)
AnsweredNotInstalled(list, ans) ==
  IF list = <<>>
  THEN <<>>
  ELSE (IF ans[1] THEN <<>> ELSE <<list[1]>>)
       \o AnsweredNotInstalled(Tail(list), Tail(ans))

\* the comprehension of a shared-mode execution has asked about every package
Filtered(e) ==
  /\ ~isolated[e]
  /\ NonEmptyRequest(e)
  /\ pc[e] \notin {"idle", "filter", "wait_query"}
  /\ Len(answers[e]) = Len(requested[e][1])

\* C7: in shared mode the install step gets the requested packages for which
\* the already-installed query answered false, in the requested order; when
\* every package was reported installed no install process is spawned and the
\* execution goes on to the run step.
C7_SharedInstallsWhatIsMissing ==
  \A e \in Execs :
    Filtered(e) =>
      LET missing == AnsweredNotInstalled(requested[e][1], answers[e])
      IN  /\ packages[e] = <<missing>>
          /\ Cardinality(InstallSpawns(e)) <= 1
          /\ \A i \in InstallSpawns(e) :
               PackageArguments(spawns[e][i].cmd) = AsArguments(missing)
          /\ (missing # <<>> /\ install_result[e] # None) =>
               Cardinality(InstallSpawns(e)) = 1
          /\ missing = <<>> =>
               /\ InstallSpawns(e) = {}
               /\ pc[e] # "wait_install"
               /\ install_result[e] # None => install_result[e][1].returncode = 0
               /\ pc[e] = "returned" => RunSpawns(e) # {}

\* a shared execution that asked about two packages, was told that the first
\* is installed and the second is not, and installed the second
C7_Witness ==
  \E e \in Execs :
    /\ Filtered(e)
    /\ answers[e] = <<TRUE, FALSE>>
    /\ InstallSucceeded(e)
    /\ \E i \in InstallSpawns(e) :
         PackageArguments(spawns[e][i].cmd) = <<<<"json">>>>

\* the isolated execution e holds a workspace: it is between mkdtemp and the
\* end of rmtree
HoldsWorkspace(e) ==
  /\ isolated[e]
  /\ pc[e] \in {"buildenv", "install", "wait_install", "check", "write",
                "run", "wait_run", "finally"}

\* C8: concurrent isolated-mode executions hold distinct workspaces, the
\* environment of each names only its own workspace, and the workspace of an
\* execution that has not finished is neither removed nor emptied by the
\* cleanup of another.
C8_IsolatedExecutionsIndependent ==
  \A e \in Execs :
    HoldsWorkspace(e) =>
      /\ temp_dir[e] # None
      /\ temp_dir[e][1] \in dirs
      /\ \A f \in Execs \ {e} :
           HoldsWorkspace(f) => temp_dir[f] # temp_dir[e]
      /\ wrote[e] => scripts[temp_dir[e][1]] = <<code[e]>>
      /\ (InstallSucceeded(e) /\ NonEmptyRequest(e)) =>
           \A i \in 1..Len(requested[e][1]) :
             requested[e][1][i] \in gems[temp_dir[e][1]]
      /\ env[e] # None =>
           LET own == <<"tmp", ToString(temp_dir[e][1]), ".gem">>
           IN  /\ env[e][1].GEM_HOME = <<own>>
               /\ env[e][1].GEM_PATH = <<own>>
               /\ env[e][1].PATH = <<own \o <<"bin">>>> \o environ.PATH

\* an isolated execution still holding its workspace, script written, after
\* another isolated execution has removed its own
C8_Witness ==
  \E e, f \in Execs :
    /\ HoldsWorkspace(e)
    /\ wrote[e]
    /\ isolated[f]
    /\ removed[f] = "ok"
    /\ Len(spawns[f]) > 0

\* C9 as stated: run_command returns returncode -2 only when the timeout
\* fired; no child that completed yields a result with returncode -2.
C9_SentinelOnlyOnTimeout ==
  \A e \in Execs :
    \A i \in 1..Len(ended[e]) :
      (ended[e][i] # "running" /\ ~IsQuery(spawns[e][i])
         /\ ResultOf(e, i) # None /\ ResultOf(e, i)[1].returncode = -2) =>
        ended[e][i] = "timeout"

\* C10 as stated: when rmtree fails at cleanup, the caller still receives the
\* result the execution had produced.
C10_ResultSurvivesCleanupFailure ==
  \A e \in Execs :
    (isolated[e] /\ removed[e] = "failed" /\ retval[e] # None) =>
      result[e] = retval[e]

\* C11 as stated: in shared mode every install process is started with the
\* shared environment (the host environment with the install root set to the
\* user's persistent directory), the one the run step uses later.
C11_SharedInstallUsesSharedEnv ==
  \A e \in Execs :
    ~isolated[e] =>
      \A i \in InstallSpawns(e) :
        spawns[e][i].env =
          <<[GEM_HOME |-> <<<<"home", ".gem">>>>, GEM_PATH |-> <<>>,
             PATH |-> <<<<"usr", "bin">>>>]>>

\* C11 amended: in shared mode every install process is started with no
\* environment of its own (env is None, the child inherits the host
\* environment); the shared environment, the host environment with the
\* install root set to the user's persistent directory, is built only after
\* the install step has returned status 0, and the interpreter alone gets it.
C11_SharedEnvBuiltAfterInstall ==
  \A e \in Execs :
    ~isolated[e] =>
      /\ \A i \in InstallSpawns(e) \cup QuerySpawns(e) : spawns[e][i].env = <<>>
      /\ env[e] # <<>> => (InstallSucceeded(e) /\ RunSpawns(e) # {})
      /\ \A i \in RunSpawns(e) :
           /\ spawns[e][i].env = env[e]
           /\ spawns[e][i].env =
                <<[GEM_HOME |-> <<<<"home", ".gem">>>>, GEM_PATH |-> <<>>,
                   PATH |-> <<<<"usr", "bin">>>>]>>

\* a shared execution that installed a package and started the interpreter
C11_Witness ==
  \E e \in Execs :
    /\ ~isolated[e]
    /\ InstallSpawns(e) # {}
    /\ RunSpawns(e) # {}
    /\ env[e] # <<>>

\* C12: whatever executions have taken place, os.environ of the host process
\* is what it was; the overrides are in the environment handed to the
\* children only.
C12_HostEnvironmentUnchanged ==
  /\ environ = [GEM_HOME |-> <<>>, GEM_PATH |-> <<>>,
                PATH |-> <<<<"usr", "bin">>>>]
  /\ \A e \in Execs :
       \A i \in 1..Len(spawns[e]) :
         spawns[e][i].env # <<>> =>
           /\ spawns[e][i].env[1].GEM_HOME # <<>>
           /\ spawns[e][i].env # <<environ>>

\* an isolated and a shared execution that both started an interpreter with
\* their overrides
C12_Witness ==
  \E e, f \in Execs :
    /\ isolated[e] /\ RunSpawns(e) # {}
    /\ ~isolated[f] /\ RunSpawns(f) # {}
    /\ pc[e] \in Over /\ pc[f] \in Over

\* the children of e that are alive
LiveOf(e) == { i \in 1..Len(spawns[e]) : <<e, i>> \in live }

\* C13: in an isolated-mode execution the workspace is created before any
\* child is started, the install step is over before the script is written,
\* the script is written before the interpreter is started, and the workspace
\* is removed last: never while a child of the execution is alive, and no
\* child is started after it.
C13_IsolatedStepsInOrder ==
  \A e \in Execs :
    isolated[e] =>
      /\ spawns[e] # <<>> => (temp_dir[e] # <<>> /\ env[e] # <<>>)
      /\ LiveOf(e) # {} =>
           (temp_dir[e][1] \in dirs /\ removed[e] = "none")
      /\ wrote[e] =>
           /\ install_result[e] # <<>>
           /\ \A j \in InstallSpawns(e) : ended[e][j] # "running"
      /\ \A i \in RunSpawns(e) :
           /\ wrote[e]
           /\ \A j \in InstallSpawns(e) : j < i
      /\ removed[e] # "none" =>
           /\ pc[e] \in Over
           /\ LiveOf(e) = {}
           /\ \A i \in 1..Len(ended[e]) : ended[e][i] # "running"

\* an isolated execution that installed, wrote the script, ran it and removed
\* its workspace
C13_Witness ==
  \E e \in Execs :
    /\ isolated[e]
    /\ InstallSpawns(e) # {}
    /\ RunSpawns(e) # {}
    /\ removed[e] = "ok"
    /\ pc[e] = "returned"

\* C14: within one execution at most one install process and at most one
\* interpreter are spawned, whatever their outcomes, and each package is
\* asked about at most once; the interpreter is spawned only after an install
\* step that returned 0, never after one that did not, and an execution that
\* returns a result after install status 0 has run the code once.
C14_NothingRetried ==
  \A e \in Execs :
    /\ Cardinality(InstallSpawns(e)) <= 1
    /\ Cardinality(RunSpawns(e)) <= 1
    /\ requested[e] # <<>> =>
         Cardinality(QuerySpawns(e)) <= Len(requested[e][1])
    /\ requested[e] = <<>> => QuerySpawns(e) = {}
    /\ RunSpawns(e) # {} => InstallSucceeded(e)
    /\ InstallFailed(e) => RunSpawns(e) = {}
    /\ (pc[e] = "returned" /\ InstallSucceeded(e)) =>
         Cardinality(RunSpawns(e)) = 1

\* an execution whose install timed out and one whose interpreter timed out,
\* both over
C14_Witness ==
  \E e, f \in Execs :
    /\ pc[e] = "returned" /\ pc[f] = "returned"
    /\ InstallFailed(e) /\ install_result[e][1].returncode = -2
    /\ ended[e][Len(ended[e])] = "timeout"
    /\ RunSpawns(f) # {}
    /\ ended[f][Len(ended[f])] = "timeout"

HasUserInstallFlag(cmd) == \E k \in 1..Len(cmd) : cmd[k] = <<"--user-install">>

\* C15: an install process carries --user-install exactly when it is started
\* without an environment of its own; none is started with the flag and an
\* environment that redirects the install root.
C15_UserInstallIffNoEnv ==
  \A e \in Execs :
    \A i \in InstallSpawns(e) :
      /\ HasUserInstallFlag(spawns[e][i].cmd) <=> spawns[e][i].env = <<>>
      /\ ~(HasUserInstallFlag(spawns[e][i].cmd)
             /\ spawns[e][i].env # <<>>
             /\ spawns[e][i].env[1].GEM_HOME # <<>>)

\* an isolated and a shared execution that both started an install process
C15_Witness ==
  \E e, f \in Execs :
    /\ isolated[e] /\ InstallSpawns(e) # {}
    /\ ~isolated[f] /\ InstallSpawns(f) # {}

\* the children an execution is blocked on
Waiting == {"wait_query", "wait_install", "wait_run"}

\* C16 as stated: every child a call waits on is awaited to its exit or cut
\* off when the timeout fires, so a child that never exits by itself cannot
\* keep the call from returning: every wait has a timeout.
C16_EveryWaitIsBounded ==
  \A e \in Execs :
    pc[e] \in Waiting => spawns[e][Len(spawns[e])].timeout # <<>>

\* C17: a shared-mode execution is never held back by another one: its next
\* already-installed query, the return of that query and its install process
\* can each happen whatever the other executions are doing, so the query and
\* the install of one execution are not one atomic step.
C17_SharedNotSerialized ==
  \A e \in Execs :
    ~isolated[e] =>
      /\ (pc[e] = "filter" /\ packages[e] # <<>> /\ packages[e] # <<<<>>>>
            /\ idx[e] <= Len(packages[e][1])) => ENABLED QuerySpawn(e)
      /\ pc[e] = "wait_query" => ENABLED QueryReturn(e)
      /\ (pc[e] = "install" /\ packages[e] # <<>> /\ packages[e] # <<<<>>>>)
           => ENABLED InstallSpawn(e)

\* two shared-mode executions that were both told the same package is not
\* installed and both have an install process for it running
C17_Witness ==
  \E e, f \in Execs :
    /\ e # f
    /\ ~isolated[e] /\ ~isolated[f]
    /\ "rake" \notin store
    /\ answers[e] # <<>> /\ ~answers[e][1]
    /\ answers[f] # <<>> /\ ~answers[f][1]
    /\ \E i \in InstallSpawns(e), j \in InstallSpawns(f) :
         /\ <<e, i>> \in live /\ <<f, j>> \in live
         /\ "rake" \in InstalledBy(spawns[e][i])
         /\ "rake" \in InstalledBy(spawns[f][j])

\* C18: when shared-mode executions run one after the other, the store only
\* grows, a shared install that returns 0 leaves its packages in the store,
\* and no shared-mode execution starts an install process naming a package
\* that is in the store: a package installed once is skipped from then on.
C18_InstalledOnceThenSkipped ==
  [][ /\ store \subseteq store'
      /\ \A e \in Execs :
           /\ (~isolated[e] /\ pc[e] = "install" /\ pc'[e] = "wait_install")
                => InstalledBy(spawns'[e][Len(spawns'[e])]) \cap store = {}
           /\ (~isolated[e] /\ pc[e] = "wait_install" /\ pc'[e] = "check"
                 /\ install_result'[e][1].returncode = 0)
                => InstalledBy(spawns[e][Len(spawns[e])]) \subseteq store'
    ]_vars

\* a shared-mode execution installed rake with status 0 and a later one that
\* requested rake was told it is installed and started no install process
C18_Witness ==
  \E e, f \in Execs :
    /\ e # f
    /\ ~isolated[e] /\ ~isolated[f]
    /\ InstallSucceeded(e)
    /\ \E i \in InstallSpawns(e) : "rake" \in InstalledBy(spawns[e][i])
    /\ requested[f] = <<<<"rake">>>>
    /\ answers[f] = <<TRUE>>
    /\ InstallSpawns(f) = {}
    /\ pc[f] = "returned"

\* C19: only the install of a shared-mode execution changes the shared store;
\* no step of an isolated-mode execution does, a directory that does not
\* exist holds no packages, and a workspace is empty when it is created.
C19_IsolatedLeavesStoreUnchanged ==
  [][ /\ store' # store =>
           \E e \in Execs :
             ~isolated[e] /\ pc[e] = "wait_install" /\ pc'[e] = "check"
      /\ \A d \in DirNames \ dirs' : gems'[d] = {}
      /\ \A e \in Execs :
           (pc[e] = "mkdtemp" /\ pc'[e] = "buildenv")
             => gems'[temp_dir'[e][1]] = {}
    ]_vars

\* an isolated-mode execution installed its packages with status 0, ran and
\* removed its workspace, and the shared store is as it was at the start
C19_Witness ==
  \E e \in Execs :
    /\ isolated[e]
    /\ NonEmptyRequest(e)
    /\ InstallSucceeded(e)
    /\ InstallSpawns(e) # {}
    /\ pc[e] = "returned"
    /\ removed[e] = "ok"
    /\ store = {}
    /\ \A d \in DirNames \ dirs : gems[d] = {}

====
